---- MODULE Spec2Model ----
(***************************************************************************)
(* TokenFlipper: emote playback / broadcast protocol (emotes.js) and the   *)
(* flip action (tokenflipper.js), as run by one client of the host.        *)
(*                                                                         *)
(* One step of the model is one turn of the host's event loop: a handler   *)
(* runs from its entry, or from the await it was suspended at, up to its   *)
(* next await or its return.  Awaits whose promise is already resolved do  *)
(* not end the turn.                                                       *)
(***************************************************************************)
EXTENDS Integers, Sequences, FiniteSets, TLC

VARIABLES
    ready,         \* the "ready" hook has run: socket listener and API registered
    scene,         \* canvas.scene.id, the scene this client is viewing
    emotes,        \* game.settings.get(MODULE_ID, "emotes"): the registry
    activeEmotes,  \* the Map emoteKey -> sprite (emotes.js line 4)
    children,      \* the module's sprites on canvas.tokens: sprite id -> sprite
    playbacks,     \* suspended renderEmoteLocally invocations: id -> frame
    socket,        \* messages handed to game.socket.emit in the current turn
    turn,          \* the handler that ran in the current turn, with its inputs
    tokenDoc,      \* token.document of every token: texture.scaleX/scaleY
    animating,     \* token.animationContexts.size of every token
    flips,         \* suspended flipSelectedTokens invocations, oldest update first
    flipDuration,  \* game.settings.get(MODULE_ID, "flipDuration")
    flipLog,       \* history: the flip calls made and the tokens they reached
    tokenY,        \* token.document.y of every token
    bounces,       \* suspended doBounceAnimation invocations
    bounceLog,     \* history: the bounces asked for and the updates applied
    clock          \* Date.now(), in milliseconds

emoteVars == <<ready, scene, emotes, activeEmotes, children, playbacks, socket>>
flipVars == <<tokenDoc, animating, flips, flipDuration, flipLog>>
bounceVars == <<tokenY, bounces, bounceLog>>
vars == <<emoteVars, turn, flipVars, bounceVars, clock>>

(***************************************************************************)
(* Bounds and the input universe.                                          *)
(***************************************************************************)
\* renderEmoteLocally invocations and orphaned sprites alive at once
MaxSprites == 2

SpriteIds == 1..MaxSprites

\* flipSelectedTokens calls made in one run
MaxFlipCalls == 3
\* calls of bounceSelectedTokens in a behaviour
MaxBounceCalls == 1
\* the last millisecond Date.now() reaches
MaxClock == 2
\* the longest list of emotes the configuration form builds
MaxEmotes == 5

Scenes == {"sceneA", "sceneB"}

\* the tokens of each scene; sceneB holds none of interest
SceneTokens(s) == IF s = "sceneA" THEN {"tokA", "tokB", "tokC"} ELSE {}

\* token.document.isOwner for the user of this client
isOwner(tokenId) == tokenId \in {"tokA", "tokC"}

\* canvas.tokens.controlled as the handlers can find it
Selections(s) ==
    IF s = "sceneA"
    THEN {<<>>, <<"tokA">>, <<"tokA", "tokB", "tokC">>}
    ELSE {<<>>}

\* emote ids a local caller may pass; "emote-404" is in no registry
EmoteIdInputs == {"heart", "emote-404"}

\* what may arrive on the module channel, from any peer
SocketData ==
    [action : {"playEmote"}, sceneId : {"sceneA"},
     tokenId : {"tokA"}, emoteId : {"heart", "question", "emote-404"}]
    \cup [action : {"playEmote"}, sceneId : {"sceneA"},
          tokenId : {"tokC"}, emoteId : {"heart"}]
    \cup [action : {"playEmote"}, sceneId : {"sceneB"},
          tokenId : {"tokA"}, emoteId : {"heart"}]
    \cup [action : {"ping"}, sceneId : {"sceneA"},
          tokenId : {"tokA"}, emoteId : {"heart"}]

(***************************************************************************)
(* Registry access.                                                        *)
(***************************************************************************)
getDefaultEmotes ==
    << [id |-> "exclamation", duration |-> 1500, fadeIn |-> 200, fadeOut |-> 200],
       [id |-> "question",    duration |-> 1500, fadeIn |-> 200, fadeOut |-> 200],
       [id |-> "ellipsis",    duration |-> 2000, fadeIn |-> 200, fadeOut |-> 200],
       [id |-> "heart",       duration |-> 1500, fadeIn |-> 200, fadeOut |-> 200] >>

\* emotes.find(e => e.id === emoteId): the index of the first match, 0 if none
findEmote(list, emoteId) ==
    LET hits == {i \in 1..Len(list) : list[i].id = emoteId}
    IN  IF hits = {} THEN 0 ELSE CHOOSE i \in hits : \A j \in hits : i <= j

\* JavaScript's  v || d  on numbers
orDefault(v, d) == IF v = 0 THEN d ELSE v

\* mutant: the key is the token id alone
emoteKeyTokenOnly(tokenId, emoteId) == tokenId

\* `${tokenId}-${emoteId}`
emoteKey(tokenId, emoteId) == tokenId \o "-" \o emoteId

(***************************************************************************)
(* Map and child-list primitives.                                          *)
(***************************************************************************)
mapHas(m, k) == k \in DOMAIN m

mapSet(m, k, v) == [x \in DOMAIN m \cup {k} |-> IF x = k THEN v ELSE m[x]]

mapDelete(m, k) == [x \in DOMAIN m \ {k} |-> m[x]]

\* ids not held by a live invocation, a sprite on the canvas or a map entry
FreeIds ==
    {i \in SpriteIds :
        /\ i \notin DOMAIN playbacks
        /\ i \notin DOMAIN children
        /\ \A k \in DOMAIN activeEmotes : activeEmotes[k] # i}

\* the n smallest free ids, in increasing order
RECURSIVE firstIds(_, _)
firstIds(S, n) ==
    IF n = 0 \/ S = {} THEN <<>>
    ELSE LET m == CHOOSE i \in S : \A j \in S : i <= j
         IN  <<m>> \o firstIds(S \ {m}, n - 1)

(***************************************************************************)
(* renderEmoteLocally, from its entry to its first await.                  *)
(***************************************************************************)
\* canvas.tokens.get(tokenId): the tokens of the scene being viewed
canvasTokensGet(tokenId) == tokenId \in SceneTokens(scene)

\* mutant: the scene check of line 64 left out
renderEmoteLocallyEntryAnyScene(sceneId, tokenId, emoteId) ==
    IF ~canvasTokensGet(tokenId) THEN "noToken"
    ELSE IF findEmote(emotes, emoteId) = 0 THEN "noEmote"
    ELSE IF mapHas(activeEmotes, emoteKey(tokenId, emoteId)) THEN "duplicate"
    ELSE "loadTexture"

\* the early returns of lines 64-77; "loadTexture" when the call reaches its await
renderEmoteLocallyEntry(sceneId, tokenId, emoteId) ==
    IF scene # sceneId THEN "sceneMismatch"
    ELSE IF ~canvasTokensGet(tokenId) THEN "noToken"
    ELSE IF findEmote(emotes, emoteId) = 0 THEN "noEmote"
    ELSE IF mapHas(activeEmotes, emoteKey(tokenId, emoteId)) THEN "duplicate"
    ELSE "loadTexture"

\* the frame of an invocation suspended at  await loadTexture(emote.image)
newFrame(call) ==
    [tokenId  |-> call.tokenId,
     emoteId  |-> call.emoteId,
     emoteKey |-> emoteKey(call.tokenId, call.emoteId),
     emote    |-> emotes[findEmote(emotes, call.emoteId)],
     pc       |-> "loadTexture"]

reachesAwait(call) ==
    renderEmoteLocallyEntry(call.sceneId, call.tokenId, call.emoteId) = "loadTexture"

\* renderEmoteLocally called once per element of calls, in order, in one turn:
\* nothing shared is written before the first await, so every call sees the
\* same activeEmotes
renderEmoteLocallyCalls(calls) ==
    LET accepted == SelectSeq(calls, reachesAwait)
        ids == firstIds(FreeIds, Len(accepted))
    IN  /\ Len(ids) = Len(accepted)
        /\ playbacks' =
              [p \in DOMAIN playbacks \cup {ids[i] : i \in 1..Len(ids)} |->
                  IF p \in DOMAIN playbacks THEN playbacks[p]
                  ELSE newFrame(accepted[CHOOSE i \in 1..Len(ids) : ids[i] = p])]

(***************************************************************************)
(* Handlers.                                                               *)
(***************************************************************************)
\* Hooks.once("ready"): initializeEmoteSockets, the API, initializeDefaultEmotes
\* isGM: game.user.isGM, read once, here
initializeDefaultEmotes(isGM) ==
    IF isGM /\ Len(emotes) = 0 THEN getDefaultEmotes ELSE emotes

Ready(isGM) ==
    /\ ~ready
    /\ ready' = TRUE
    /\ emotes' = initializeDefaultEmotes(isGM)
    /\ socket' = <<>>
    /\ turn' = [op |-> "ready"]
    /\ UNCHANGED <<scene, activeEmotes, children, playbacks, flipVars, bounceVars, clock>>

\* mutant: the listener without its test of data.action
socketCallsAnyAction(data) ==
    <<[sceneId |-> data.sceneId, tokenId |-> data.tokenId, emoteId |-> data.emoteId]>>

\* the listener of initializeEmoteSockets
socketCalls(data) ==
    IF data.action = "playEmote"
    THEN <<[sceneId |-> data.sceneId, tokenId |-> data.tokenId, emoteId |-> data.emoteId]>>
    ELSE <<>>

OnSocketMessage(data) ==
    /\ ready
    /\ renderEmoteLocallyCalls(socketCalls(data))
    /\ socket' = <<>>
    /\ turn' = [op |-> "socket", data |-> data]
    /\ UNCHANGED <<ready, scene, emotes, activeEmotes, children, flipVars, bounceVars, clock>>

\* mutant: the message is emitted only when the local playback is not suppressed
RECURSIVE playEmoteLoopEmitIfStarted(_, _, _)
playEmoteLoopEmitIfStarted(controlled, emoteId, i) ==
    IF i > Len(controlled) THEN [calls |-> <<>>, emitted |-> <<>>]
    ELSE LET token == controlled[i]
             rest == playEmoteLoopEmitIfStarted(controlled, emoteId, i + 1)
             call == [sceneId |-> scene, tokenId |-> token, emoteId |-> emoteId]
         IN  IF ~isOwner(token) THEN rest
             ELSE [calls   |-> <<call>> \o rest.calls,
                   emitted |-> IF reachesAwait(call)
                               THEN <<[action |-> "playEmote", sceneId |-> scene,
                                       tokenId |-> token, emoteId |-> emoteId]>>
                                    \o rest.emitted
                               ELSE rest.emitted]

\* mutant: a token that is not owned ends the loop (return for continue)
RECURSIVE playEmoteLoopBreak(_, _, _)
playEmoteLoopBreak(controlled, emoteId, i) ==
    IF i > Len(controlled) THEN [calls |-> <<>>, emitted |-> <<>>]
    ELSE LET token == controlled[i]
             rest == playEmoteLoopBreak(controlled, emoteId, i + 1)
         IN  IF ~isOwner(token) THEN [calls |-> <<>>, emitted |-> <<>>]
             ELSE [calls   |-> <<[sceneId |-> scene, tokenId |-> token,
                                  emoteId |-> emoteId]>> \o rest.calls,
                   emitted |-> <<[action |-> "playEmote", sceneId |-> scene,
                                  tokenId |-> token, emoteId |-> emoteId]>>
                               \o rest.emitted]

\* the loop of playEmote over the selection, from index i: the calls it makes
\* to renderEmoteLocally and the messages it emits
RECURSIVE playEmoteLoop(_, _, _)
playEmoteLoop(controlled, emoteId, i) ==
    IF i > Len(controlled) THEN [calls |-> <<>>, emitted |-> <<>>]
    ELSE LET token == controlled[i]
             rest == playEmoteLoop(controlled, emoteId, i + 1)
         IN  IF ~isOwner(token) THEN rest
             ELSE [calls   |-> <<[sceneId |-> scene, tokenId |-> token,
                                  emoteId |-> emoteId]>> \o rest.calls,
                   emitted |-> <<[action |-> "playEmote", sceneId |-> scene,
                                  tokenId |-> token, emoteId |-> emoteId]>>
                               \o rest.emitted]

\* mutant: the lookup of lines 29-35 left out
playEmoteNoLookup(emoteId, controlled) ==
    IF Len(controlled) = 0 THEN [calls |-> <<>>, emitted |-> <<>>]
    ELSE playEmoteLoop(controlled, emoteId, 1)

\* playEmote, lines 21-54: the calls it makes and the messages it emits
playEmote(emoteId, controlled) ==
    IF Len(controlled) = 0 THEN [calls |-> <<>>, emitted |-> <<>>]
    ELSE IF findEmote(emotes, emoteId) = 0 THEN [calls |-> <<>>, emitted |-> <<>>]
    ELSE playEmoteLoop(controlled, emoteId, 1)

PlayEmote(emoteId, controlled) ==
    /\ ready
    /\ LET run == playEmote(emoteId, controlled)
       IN  /\ renderEmoteLocallyCalls(run.calls)
           /\ socket' = run.emitted
    /\ turn' = [op |-> "playEmote", emoteId |-> emoteId, controlled |-> controlled]
    /\ UNCHANGED <<ready, scene, emotes, activeEmotes, children, flipVars, bounceVars, clock>>

(***************************************************************************)
(* renderEmoteLocally, resumed at each of its awaits.                      *)
(***************************************************************************)
\* mutant: the test of line 133 as duration >= 0
animateSpriteIsImmediateGE(duration) == duration >= 0

\* animateSprite: a duration <= 0 assigns the property at once and resolves,
\* so the caller goes on in the same turn; otherwise the caller is suspended
animateSpriteIsImmediate(duration) == duration <= 0

resumed(p, outcome) ==
    [op |-> "resume", id |-> p, emoteKey |-> playbacks[p].emoteKey, outcome |-> outcome]

\* mutant: line 117 left out
cleanupKeepsEntry(p) ==
    /\ children' = mapDelete(children, p)
    /\ playbacks' = mapDelete(playbacks, p)
    /\ UNCHANGED activeEmotes

\* lines 115-117
cleanup(p) ==
    /\ children' = mapDelete(children, p)
    /\ activeEmotes' = mapDelete(activeEmotes, playbacks[p].emoteKey)
    /\ playbacks' = mapDelete(playbacks, p)

\* loadTexture resolved with a texture: lines 82-106
TextureLoaded(p) ==
    /\ p \in DOMAIN playbacks
    /\ playbacks[p].pc = "loadTexture"
    /\ LET f == playbacks[p]
           now == animateSpriteIsImmediate(orDefault(f.emote.fadeIn, 200))
       IN  /\ children' = mapSet(children, p,
                  [tokenId |-> f.tokenId, emoteId |-> f.emoteId,
                   alpha |-> IF now THEN 1 ELSE 0])
           /\ activeEmotes' = mapSet(activeEmotes, f.emoteKey, p)
           /\ playbacks' = [playbacks EXCEPT ![p].pc = IF now THEN "hold" ELSE "fadeIn"]
    /\ socket' = <<>>
    /\ turn' = resumed(p, "spriteAdded")
    /\ UNCHANGED <<ready, scene, emotes, flipVars, bounceVars, clock>>

\* loadTexture resolved with nothing: lines 82-85
TextureMissing(p) ==
    /\ p \in DOMAIN playbacks
    /\ playbacks[p].pc = "loadTexture"
    /\ playbacks' = mapDelete(playbacks, p)
    /\ socket' = <<>>
    /\ turn' = resumed(p, "noTexture")
    /\ UNCHANGED <<ready, scene, emotes, activeEmotes, children, flipVars, bounceVars, clock>>

\* mutant: the catch block empties the registry (clear for delete)
catchClearsAll(p) ==
    /\ activeEmotes' = [x \in {} |-> 0]
    /\ playbacks' = mapDelete(playbacks, p)
    /\ UNCHANGED children

\* the catch block, lines 119-122
catch(p) ==
    /\ activeEmotes' = mapDelete(activeEmotes, playbacks[p].emoteKey)
    /\ playbacks' = mapDelete(playbacks, p)
    /\ UNCHANGED children

\* the awaited promise rejected: loadTexture, or animateSprite whose executor threw
AwaitRejected(p) ==
    /\ p \in DOMAIN playbacks
    /\ playbacks[p].pc \in {"loadTexture", "fadeIn", "fadeOut"}
    /\ catch(p)
    /\ socket' = <<>>
    /\ turn' = [resumed(p, "caught") EXCEPT !.outcome = "caught:" \o playbacks[p].pc]
    /\ UNCHANGED <<ready, scene, emotes, flipVars, bounceVars, clock>>

\* the fade-in animation ended: lines 106-109
FadeInDone(p) ==
    /\ p \in DOMAIN playbacks
    /\ playbacks[p].pc = "fadeIn"
    /\ children' = [children EXCEPT ![p].alpha = 1]
    /\ playbacks' = [playbacks EXCEPT ![p].pc = "hold"]
    /\ socket' = <<>>
    /\ turn' = resumed(p, "fadedIn")
    /\ UNCHANGED <<ready, scene, emotes, activeEmotes, flipVars, bounceVars, clock>>

\* the hold timer fired: lines 109-112, and on to 115-117 when the fade-out
\* is immediate
HoldDone(p) ==
    /\ p \in DOMAIN playbacks
    /\ playbacks[p].pc = "hold"
    /\ IF animateSpriteIsImmediate(orDefault(playbacks[p].emote.fadeOut, 200))
       THEN cleanup(p)
       ELSE /\ playbacks' = [playbacks EXCEPT ![p].pc = "fadeOut"]
            /\ UNCHANGED <<children, activeEmotes>>
    /\ socket' = <<>>
    /\ turn' = resumed(p, "held")
    /\ UNCHANGED <<ready, scene, emotes, flipVars, bounceVars, clock>>

\* the fade-out animation ended: lines 112-117
FadeOutDone(p) ==
    /\ p \in DOMAIN playbacks
    /\ playbacks[p].pc = "fadeOut"
    /\ cleanup(p)
    /\ socket' = <<>>
    /\ turn' = resumed(p, "completed")
    /\ UNCHANGED <<ready, scene, emotes, flipVars, bounceVars, clock>>

\* mutant: viewing another scene cancels the playbacks that have a node
ViewSceneCancels(s) ==
    /\ ready
    /\ s # scene
    /\ scene' = s
    /\ socket' = <<>>
    /\ turn' = [op |-> "viewScene"]
    /\ playbacks' = [p \in DOMAIN playbacks \ DOMAIN children |-> playbacks[p]]
    /\ children' = [x \in {} |-> 0]
    /\ activeEmotes' = [x \in {} |-> 0]
    /\ UNCHANGED <<ready, emotes, flipVars, bounceVars, clock>>

\* the user views another scene
ViewScene(s) ==
    /\ ready
    /\ s # scene
    /\ scene' = s
    /\ socket' = <<>>
    /\ turn' = [op |-> "viewScene"]
    /\ UNCHANGED <<ready, emotes, activeEmotes, children, playbacks, flipVars, bounceVars, clock>>

(***************************************************************************)
(* flipSelectedTokens (tokenflipper.js).                                   *)
(***************************************************************************)
Tokens == SceneTokens("sceneA")

emptyMap == [x \in {} |-> 0]

\* "texture.scaleY" for "vertical", "texture.scaleX" for anything else
property(direction) == IF direction = "vertical" THEN "scaleY" ELSE "scaleX"

\* mutant: the new value is always negative
flipValueAbs(currentValue) == IF currentValue > 0 THEN 0 - currentValue ELSE currentValue

\* currentValue * -1
flipValue(currentValue) == currentValue * (-1)

\* token.animationContexts?.size > 0, with anim the animation contexts' sizes
isAnimating(anim, t) == anim[t] > 0

\* the token whose update the suspended invocation f awaits
awaited(f) == f.controlled[f.i]

updateInFlight(queue, t) == \E k \in 1..Len(queue) : awaited(queue[k]) = t

\* mutant: a token that is not owned ends the loop (return for continue)
RECURSIVE flipLoopBreak(_, _, _)
flipLoopBreak(controlled, i, anim) ==
    IF i > Len(controlled) THEN [i |-> 0, reached |-> <<>>]
    ELSE LET token == controlled[i]
         IN  IF ~isOwner(token) THEN [i |-> 0, reached |-> <<>>]
             ELSE IF isAnimating(anim, token)
                  THEN LET rest == flipLoopBreak(controlled, i + 1, anim)
                       IN  [rest EXCEPT !.reached = <<token>> \o @]
                  ELSE [i |-> i, reached |-> <<token>>]

\* the for loop from index i up to its next await: the index of the first token
\* that is owned and not animating (0 when the loop runs to its end), and the
\* owned tokens the loop reached on the way, that one included
RECURSIVE flipLoop(_, _, _)
flipLoop(controlled, i, anim) ==
    IF i > Len(controlled) THEN [i |-> 0, reached |-> <<>>]
    ELSE LET token == controlled[i]
         IN  IF ~isOwner(token) THEN flipLoop(controlled, i + 1, anim)
             ELSE IF isAnimating(anim, token)
                  THEN LET rest == flipLoop(controlled, i + 1, anim)
                       IN  [rest EXCEPT !.reached = <<token>> \o @]
                  ELSE [i |-> i, reached |-> <<token>>]

\* the frame suspended at  await token.document.update(updates, ...)
flipFrame(direction, controlled, i) ==
    [direction  |-> direction,
     controlled |-> controlled,
     i          |-> i,
     value      |-> flipValue(tokenDoc[controlled[i]][property(direction)])]

\* history: the owned tokens a call reached, and whether each was reached while
\* it was neither animating nor awaiting another flip's update
logReached(log, direction, reached, anim, queue) ==
    LET hit == {reached[k] : k \in 1..Len(reached)}
    IN  [log EXCEPT
           !.reached = [t \in Tokens |->
               IF t \in hit
               THEN [@[t] EXCEPT ![property(direction)] = @ + 1]
               ELSE @[t]],
           !.apart = [t \in Tokens |->
               @[t] /\ (t \in hit => ~isAnimating(anim, t) /\ ~updateInFlight(queue, t))]]

FlipSelectedTokens(direction, controlled) ==
    /\ flipLog.calls < MaxFlipCalls
    /\ LET run == IF Len(controlled) = 0 THEN [i |-> 0, reached |-> <<>>]
                  ELSE flipLoop(controlled, 1, animating)
       IN  /\ flips' = IF run.i = 0 THEN flips
                       ELSE Append(flips, flipFrame(direction, controlled, run.i))
           /\ flipLog' = [logReached(flipLog, direction, run.reached, animating, flips)
                            EXCEPT !.calls = @ + 1]
    /\ turn' = [op |-> "flip", direction |-> direction, controlled |-> controlled]
    /\ UNCHANGED <<emoteVars, bounceVars, clock, tokenDoc, animating, flipDuration>>

\* the host applies the oldest awaited update to the token's document, starts
\* the token's animation when the update changes the document and asks for one,
\* and the invocation runs on from the next token (lines 177-181, 164-177)
UpdateResolved ==
    /\ Len(flips) > 0
    /\ LET f == Head(flips)
           t == awaited(f)
           prop == property(f.direction)
           changes == tokenDoc[t][prop] # f.value
           after == [animating EXCEPT ![t] = IF changes /\ flipDuration > 0 THEN 1 ELSE @]
           run == flipLoop(f.controlled, f.i + 1, after)
       IN  /\ tokenDoc' = [tokenDoc EXCEPT ![t][prop] = f.value]
           /\ animating' = after
           /\ flips' = IF run.i = 0 THEN Tail(flips)
                       ELSE Append(Tail(flips),
                                   [f EXCEPT !.i = run.i,
                                             !.value = flipValue(tokenDoc[f.controlled[run.i]][prop])])
           /\ flipLog' = logReached(flipLog, f.direction, run.reached, after, Tail(flips))
    /\ turn' = [op |-> "updateResolved"]
    /\ UNCHANGED <<emoteVars, bounceVars, clock, flipDuration>>

\* the host's animation of a token ends
AnimationEnd(t) ==
    /\ animating[t] > 0
    /\ animating' = [animating EXCEPT ![t] = 0]
    /\ turn' = [op |-> "animationEnd"]
    /\ UNCHANGED <<emoteVars, bounceVars, clock, tokenDoc, flips, flipDuration, flipLog>>

\* no bounce under way, every token at rest at y = 100, the clock at 0
bounceIdle ==
    /\ tokenY = [t \in SceneTokens("sceneA") |-> 100]
    /\ bounces = <<>>
    /\ bounceLog = [calls  |-> 0,
                    asked  |-> [t \in SceneTokens("sceneA") |-> 0],
                    ups    |-> [t \in SceneTokens("sceneA") |-> 0],
                    downs  |-> [t \in SceneTokens("sceneA") |-> 0],
                    failed |-> [t \in SceneTokens("sceneA") |-> FALSE]]
    /\ clock = 0

flipIdle(docs, duration) ==
    /\ bounceIdle
    /\ tokenDoc = docs
    /\ animating = [t \in Tokens |-> 0]
    /\ flips = <<>>
    /\ flipDuration = duration
    /\ flipLog = [calls   |-> 0,
                  orig    |-> docs,
                  reached |-> [t \in Tokens |-> [scaleX |-> 0, scaleY |-> 0]],
                  apart   |-> [t \in Tokens |-> TRUE]]

(***************************************************************************)
(* The emote protocol.                                                     *)
(***************************************************************************)
Init ==
    /\ ready = FALSE
    /\ scene = "sceneA"
    /\ emotes \in {<<>>, getDefaultEmotes}
    /\ activeEmotes = emptyMap
    /\ children = emptyMap
    /\ playbacks = emptyMap
    /\ socket = <<>>
    /\ turn = [op |-> "init"]
    /\ flipIdle([t \in Tokens |-> [scaleX |-> 1, scaleY |-> 1]], 200)

Next ==
    \/ \E isGM \in BOOLEAN : Ready(isGM)
    \/ \E data \in SocketData : OnSocketMessage(data)
    \/ \E emoteId \in EmoteIdInputs, controlled \in Selections(scene) :
          PlayEmote(emoteId, controlled)
    \/ \E p \in SpriteIds : TextureLoaded(p)
    \/ \E p \in SpriteIds : TextureMissing(p)
    \/ \E p \in SpriteIds : AwaitRejected(p)
    \/ \E p \in SpriteIds : FadeInDone(p)
    \/ \E p \in SpriteIds : HoldDone(p)
    \/ \E p \in SpriteIds : FadeOutDone(p)
    \/ \E s \in Scenes : ViewScene(s)

Spec == Init /\ [][Next]_vars

(***************************************************************************)
(* The flip action, with the emote protocol idle.                          *)
(***************************************************************************)
Directions == {"horizontal", "vertical"}

\* the scale factors a token's document may start with
InitialScales == {[scaleX |-> 1, scaleY |-> 1], [scaleX |-> -2, scaleY |-> 1]}

FlipInit ==
    /\ ready = TRUE
    /\ scene = "sceneA"
    /\ emotes = getDefaultEmotes
    /\ activeEmotes = emptyMap
    /\ children = emptyMap
    /\ playbacks = emptyMap
    /\ socket = <<>>
    /\ turn = [op |-> "init"]
    /\ \E docs \in [Tokens -> InitialScales], duration \in {0, 200} :
          flipIdle(docs, duration)

FlipNext ==
    \/ \E direction \in Directions, controlled \in Selections(scene) :
          FlipSelectedTokens(direction, controlled)
    \/ UpdateResolved
    \/ \E t \in Tokens : AnimationEnd(t)

FlipSpec == FlipInit /\ [][FlipNext]_vars

(***************************************************************************)
(* bounceSelectedTokens and doBounceAnimation (tokenflipper.js).           *)
(***************************************************************************)
\* the values the settings bounceCount and bounceHeight are read with
BounceCounts == {1, 2}
BounceHeights == {20}

\* doBounceAnimation up to its first await: originalY is read and the update
\* to originalY - height is asked for (i counts the cycles done)
doBounceAnimation(token, height, count) ==
    [token |-> token, originalY |-> tokenY[token], height |-> height,
     count |-> count, i |-> 0, phase |-> "up"]

\* mutant: doBounceAnimation is awaited, so the loop stops at the first bounce
RECURSIVE bounceLoopAwaits(_, _, _, _)
bounceLoopAwaits(controlled, i, height, count) ==
    IF i > Len(controlled) THEN <<>>
    ELSE LET token == controlled[i]
         IN  IF ~isOwner(token) \/ isAnimating(animating, token)
             THEN bounceLoopAwaits(controlled, i + 1, height, count)
             ELSE <<doBounceAnimation(token, height, count)>>

\* the for loop of bounceSelectedTokens from index i: the invocations of
\* doBounceAnimation it starts, none of them awaited
RECURSIVE bounceLoop(_, _, _, _)
bounceLoop(controlled, i, height, count) ==
    IF i > Len(controlled) THEN <<>>
    ELSE LET token == controlled[i]
             rest == bounceLoop(controlled, i + 1, height, count)
         IN  IF ~isOwner(token) THEN rest
             ELSE IF isAnimating(animating, token) THEN rest
             ELSE <<doBounceAnimation(token, height, count)>> \o rest

BounceSelectedTokens(controlled, height, count) ==
    /\ bounceLog.calls < MaxBounceCalls
    /\ LET started == IF Len(controlled) = 0 THEN <<>>
                      ELSE bounceLoop(controlled, 1, height, count)
           hit == {started[k].token : k \in 1..Len(started)}
       IN  /\ bounces' = bounces \o started
           /\ bounceLog' = [bounceLog EXCEPT
                 !.calls = @ + 1,
                 !.asked = [t \in Tokens |-> IF t \in hit THEN @[t] + count ELSE @[t]]]
    /\ turn' = [op |-> "bounce", controlled |-> controlled, height |-> height,
                count |-> count]
    /\ UNCHANGED <<emoteVars, flipVars, tokenY, clock>>

\* mutant: the loop runs once more (i <= count)
loopContinuesLE(i, count) == i <= count

\* i < count
loopContinues(i, count) == i < count

\* the sequence q without its k-th element
without(q, k) == SubSeq(q, 1, k - 1) \o SubSeq(q, k + 1, Len(q))

\* the host applies the update the k-th invocation awaits: the document's y
\* is written, the move is animated when y changes (half the bounce duration,
\* which the setting keeps above 0), and the invocation runs on to its next
\* await or to its end
BounceUpdateResolved(k) ==
    /\ k \in 1..Len(bounces)
    /\ LET f == bounces[k]
           target == IF f.phase = "up" THEN f.originalY - f.height ELSE f.originalY
           ended == f.phase = "down" /\ ~loopContinues(f.i + 1, f.count)
       IN  /\ tokenY' = [tokenY EXCEPT ![f.token] = target]
           /\ animating' = [animating EXCEPT ![f.token] = IF tokenY[f.token] # target THEN 1 ELSE @]
           /\ bounces' = IF f.phase = "up" THEN [bounces EXCEPT ![k].phase = "down"]
                         ELSE IF ended THEN without(bounces, k)
                         ELSE [bounces EXCEPT ![k].phase = "up", ![k].i = @ + 1]
           /\ bounceLog' = IF f.phase = "up"
                           THEN [bounceLog EXCEPT !.ups[f.token] = @ + 1]
                           ELSE [bounceLog EXCEPT !.downs[f.token] = @ + 1]
           /\ turn' = [op |-> "bounceResolved", token |-> f.token, phase |-> f.phase,
                       originalY |-> f.originalY, height |-> f.height, ended |-> ended]
    /\ UNCHANGED <<emoteVars, clock, tokenDoc, flips, flipDuration, flipLog>>

\* the update the k-th invocation awaits is rejected: doBounceAnimation has no
\* try, nobody awaits it, so the invocation ends there
BounceUpdateRejected(k) ==
    /\ k \in 1..Len(bounces)
    /\ bounces' = without(bounces, k)
    /\ bounceLog' = [bounceLog EXCEPT !.failed[bounces[k].token] = TRUE]
    /\ turn' = [op |-> "bounceRejected", token |-> bounces[k].token]
    /\ UNCHANGED <<emoteVars, flipVars, tokenY, clock>>

BounceInit ==
    /\ ready = TRUE
    /\ scene = "sceneA"
    /\ emotes = getDefaultEmotes
    /\ activeEmotes = emptyMap
    /\ children = emptyMap
    /\ playbacks = emptyMap
    /\ socket = <<>>
    /\ turn = [op |-> "init"]
    /\ flipIdle([t \in Tokens |-> [scaleX |-> 1, scaleY |-> 1]], 200)

BounceNext ==
    \/ \E controlled \in Selections(scene), height \in BounceHeights, count \in BounceCounts :
          BounceSelectedTokens(controlled, height, count)
    \/ \E k \in 1..Len(bounces) : BounceUpdateResolved(k)
    \/ \E k \in 1..Len(bounces) : BounceUpdateRejected(k)
    \/ \E t \in Tokens : AnimationEnd(t)

BounceSpec == BounceInit /\ [][BounceNext]_vars

\* the bounce action with one flip call of tokA beside it
BounceFlipNext ==
    \/ BounceNext
    \/ flipLog.calls = 0 /\ FlipSelectedTokens("horizontal", <<"tokA">>)
    \/ UpdateResolved

BounceFlipSpec == BounceInit /\ [][BounceFlipNext]_vars

(***************************************************************************)
(* The emote protocol under a host that settles every promise it hands     *)
(* out: loads, timers and animations resolve or reject in the end.         *)
(***************************************************************************)
\* CanvasAnimation.animate rejects: animateSprite chains only .then(resolve)
\* (lines 148-151), so the promise renderEmoteLocally awaits is never settled
\* and the invocation stays suspended for good
AnimateRejected(p) ==
    /\ p \in DOMAIN playbacks
    /\ playbacks[p].pc \in {"fadeIn", "fadeOut"}
    /\ playbacks' = [playbacks EXCEPT ![p].pc = "never"]
    /\ socket' = <<>>
    /\ turn' = [op |-> "animateRejected", id |-> p]
    /\ UNCHANGED <<ready, scene, emotes, activeEmotes, children, flipVars, bounceVars, clock>>

\* the host settles the promise that playback p awaits
Settle(p) ==
    \/ TextureLoaded(p)
    \/ TextureMissing(p)
    \/ AwaitRejected(p)
    \/ FadeInDone(p)
    \/ HoldDone(p)
    \/ FadeOutDone(p)
    \/ AnimateRejected(p)

\* the messages that arrive: the heart emote for tokA and for tokC
LiveData == {d \in SocketData : d.action = "playEmote" /\ d.sceneId = "sceneA"
                                   /\ d.emoteId = "heart"}

LiveInit ==
    /\ ready = TRUE
    /\ scene = "sceneA"
    /\ emotes = getDefaultEmotes
    /\ activeEmotes = emptyMap
    /\ children = emptyMap
    /\ playbacks = emptyMap
    /\ socket = <<>>
    /\ turn = [op |-> "init"]
    /\ flipIdle([t \in Tokens |-> [scaleX |-> 1, scaleY |-> 1]], 200)

LiveNext ==
    \/ \E data \in LiveData : OnSocketMessage(data)
    \/ \E p \in SpriteIds : TextureLoaded(p)
    \/ \E p \in SpriteIds : TextureMissing(p)
    \/ \E p \in SpriteIds : AwaitRejected(p)
    \/ \E p \in SpriteIds : FadeInDone(p)
    \/ \E p \in SpriteIds : HoldDone(p)
    \/ \E p \in SpriteIds : FadeOutDone(p)
    \/ \E p \in SpriteIds : AnimateRejected(p)

\* every promise a playback awaits is settled in the end
LiveSpec ==
    /\ LiveInit
    /\ [][LiveNext]_vars
    /\ \A p \in SpriteIds : WF_vars(Settle(p))

(***************************************************************************)
(* The configuration form (emote-config.js) and the registry it edits.     *)
(***************************************************************************)
\* the definition _onAddEmote pushes at Date.now() = now (lines 325-338)
newEmote(now) ==
    [id |-> "emote-" \o ToString(now), duration |-> 1500, fadeIn |-> 200, fadeOut |-> 200]

\* emotes.filter(e => e.id !== emoteId)
filterOut(list, emoteId) == SelectSeq(list, LAMBDA e : e.id # emoteId)

\* a millisecond passes
Tick ==
    /\ clock < MaxClock
    /\ clock' = clock + 1
    /\ turn' = [op |-> "tick"]
    /\ UNCHANGED <<emoteVars, flipVars, bounceVars>>

\* getData: the form is rendered, an empty list is filled in for a GM
GetData(isGM) ==
    /\ ready
    /\ emotes' = IF Len(emotes) = 0 /\ isGM THEN getDefaultEmotes ELSE emotes
    /\ turn' = [op |-> "getData", isGM |-> isGM]
    /\ UNCHANGED <<ready, scene, activeEmotes, children, playbacks, socket,
                   flipVars, bounceVars, clock>>

OnAddEmote ==
    /\ ready
    /\ Len(emotes) < MaxEmotes
    /\ emotes' = Append(emotes, newEmote(clock))
    /\ turn' = [op |-> "addEmote"]
    /\ UNCHANGED <<ready, scene, activeEmotes, children, playbacks, socket,
                   flipVars, bounceVars, clock>>

\* the delete button of a listed emote, with the answer to Dialog.confirm
OnDeleteEmote(i, confirmed) ==
    /\ ready
    /\ i \in 1..Len(emotes)
    /\ emotes' = IF confirmed THEN filterOut(emotes, emotes[i].id) ELSE emotes
    /\ turn' = [op |-> "deleteEmote", emoteId |-> emotes[i].id, confirmed |-> confirmed]
    /\ UNCHANGED <<ready, scene, activeEmotes, children, playbacks, socket,
                   flipVars, bounceVars, clock>>

OnResetDefaults(confirmed) ==
    /\ ready
    /\ emotes' = IF confirmed THEN getDefaultEmotes ELSE emotes
    /\ turn' = [op |-> "resetDefaults", confirmed |-> confirmed]
    /\ UNCHANGED <<ready, scene, activeEmotes, children, playbacks, socket,
                   flipVars, bounceVars, clock>>

\* _updateObject with form data for the emote at index i (1-based here): the
\* numeric fields are parsed with  parseInt(..) || default, the id is kept
UpdateObject(i, data) ==
    /\ ready
    /\ emotes' = IF i \in 1..Len(emotes)
                 THEN [emotes EXCEPT ![i].duration = orDefault(data.duration, 1500),
                                     ![i].fadeIn = orDefault(data.fadeIn, 200),
                                     ![i].fadeOut = orDefault(data.fadeOut, 200)]
                 ELSE emotes
    /\ turn' = [op |-> "updateObject", index |-> i]
    /\ UNCHANGED <<ready, scene, activeEmotes, children, playbacks, socket,
                   flipVars, bounceVars, clock>>

\* what the form can submit for one emote
FormData == [duration : {0, 300}, fadeIn : {200}, fadeOut : {0}]

ConfigInit ==
    /\ ready = FALSE
    /\ scene = "sceneA"
    /\ emotes \in {<<>>, getDefaultEmotes}
    /\ activeEmotes = emptyMap
    /\ children = emptyMap
    /\ playbacks = emptyMap
    /\ socket = <<>>
    /\ turn = [op |-> "init"]
    /\ flipIdle([t \in Tokens |-> [scaleX |-> 1, scaleY |-> 1]], 200)

ConfigNext ==
    \/ \E isGM \in BOOLEAN : Ready(isGM)
    \/ Tick
    \/ \E isGM \in BOOLEAN : GetData(isGM)
    \/ OnAddEmote
    \/ \E i \in 1..Len(emotes), confirmed \in BOOLEAN : OnDeleteEmote(i, confirmed)
    \/ \E confirmed \in BOOLEAN : OnResetDefaults(confirmed)
    \/ \E i \in 1..MaxEmotes, data \in FormData : UpdateObject(i, data)

ConfigSpec == ConfigInit /\ [][ConfigNext]_vars

(***************************************************************************)
(* The emote protocol with a registry that holds added emotes.             *)
(***************************************************************************)
\* the defaults and two emotes added at the milliseconds 1 and 11
PairEmotes == getDefaultEmotes \o <<newEmote(1), newEmote(11)>>

PairData ==
    [action : {"playEmote"}, sceneId : {"sceneA"},
     tokenId : {"tokA", "tokC"}, emoteId : {"heart", "emote-1", "emote-11"}]

PairInit ==
    /\ ready = TRUE
    /\ scene = "sceneA"
    /\ emotes = PairEmotes
    /\ activeEmotes = emptyMap
    /\ children = emptyMap
    /\ playbacks = emptyMap
    /\ socket = <<>>
    /\ turn = [op |-> "init"]
    /\ flipIdle([t \in Tokens |-> [scaleX |-> 1, scaleY |-> 1]], 200)

PairNext ==
    \/ \E data \in PairData : OnSocketMessage(data)
    \/ \E p \in SpriteIds : TextureLoaded(p)
    \/ \E p \in SpriteIds : FadeInDone(p)
    \/ \E p \in SpriteIds : HoldDone(p)
    \/ \E p \in SpriteIds : FadeOutDone(p)

PairSpec == PairInit /\ [][PairNext]_vars

(***************************************************************************)
(* Properties of the emote protocol (Spec).                                *)
(***************************************************************************)
\* the invocations a step starts
startedNow == DOMAIN playbacks' \ DOMAIN playbacks

\* a step starts an invocation for (tokenId, emoteId), suspended at loadTexture
startsPlayback(tokenId, emoteId) ==
    \E p \in startedNow :
        /\ playbacks'[p].tokenId = tokenId
        /\ playbacks'[p].emoteId = emoteId
        /\ playbacks'[p].pc = "loadTexture"

\* a step leaves every invocation that was suspended before it as it was
keepsPlaybacks == \A p \in DOMAIN playbacks : p \in DOMAIN playbacks' /\ playbacks'[p] = playbacks[p]

liveFor(key) == {p \in DOMAIN playbacks : playbacks[p].emoteKey = key}

\* C1: for every (tokenId, emoteId) pair, at most one visual node for the pair
\* is on the child list at any time, whatever the interleaving of triggers.
C1_OneNodePerPair ==
    \A a, b \in DOMAIN children :
        (children[a].tokenId = children[b].tokenId
            /\ children[a].emoteId = children[b].emoteId) => a = b

\* C2: when an animation stage (fade-in or fade-out) of a playback throws, the
\* playback's node is off the child list and the entry of its key is removed.
C2_CleanupOnThrow ==
    (turn.op = "resume" /\ turn.outcome \in {"caught:fadeIn", "caught:fadeOut"})
        => (turn.id \notin DOMAIN children /\ ~mapHas(activeEmotes, turn.emoteKey))

\* C3: the map holds an entry for a key only while a playback for that key is
\* still in progress; once the last one has finished, by completing or by a
\* failed load, the entry is absent.
C3_NoEntryWithoutPlayback ==
    \A key \in DOMAIN activeEmotes : liveFor(key) # {}

C3_Witness ==
    /\ turn.op = "resume"
    /\ turn.outcome = "completed"
    /\ liveFor(turn.emoteKey) = {}
    /\ ~mapHas(activeEmotes, turn.emoteKey)

\* C4: a playback request whose sceneId is not the scene being viewed at the
\* call adds no node, creates no entry and starts no playback.
C4_SceneMismatchNoEffect ==
    [][(turn'.op = "socket" /\ turn'.data.action = "playEmote"
            /\ turn'.data.sceneId # scene)
        => UNCHANGED <<children, activeEmotes, playbacks>>]_vars

C4_Witness ==
    /\ turn.op = "socket"
    /\ turn.data.action = "playEmote"
    /\ turn.data.sceneId # scene
    /\ canvasTokensGet(turn.data.tokenId)
    /\ findEmote(emotes, turn.data.emoteId) # 0
    /\ ~mapHas(activeEmotes, emoteKey(turn.data.tokenId, turn.data.emoteId))
    /\ playbacks = emptyMap

\* C5: a playback goes through its stages in order: the node is added with
\* opacity 0 and the entry registered from the load, the hold starts only from
\* a finished fade-in (opacity 1), the fade-out only from the hold, and the
\* node is removed, with the entry, only from a finished fade-out.
stageOrder ==
    {<<"loadTexture", "fadeIn">>, <<"fadeIn", "hold">>, <<"hold", "fadeOut">>}

C5_StagesInOrder ==
    [][\A p \in SpriteIds :
        /\ (p \in DOMAIN playbacks /\ p \in DOMAIN playbacks'
                /\ playbacks'[p].pc # playbacks[p].pc)
            => /\ <<playbacks[p].pc, playbacks'[p].pc>> \in stageOrder
               /\ playbacks'[p].pc = "hold" => children'[p].alpha = 1
        /\ (p \notin DOMAIN children /\ p \in DOMAIN children')
            => /\ p \in DOMAIN playbacks /\ playbacks[p].pc = "loadTexture"
               /\ p \in DOMAIN playbacks' /\ playbacks'[p].pc = "fadeIn"
               /\ children'[p].alpha = 0
               /\ mapHas(activeEmotes', playbacks[p].emoteKey)
        /\ (p \in DOMAIN children /\ p \notin DOMAIN children')
            => /\ p \in DOMAIN playbacks /\ playbacks[p].pc = "fadeOut"
               /\ p \notin DOMAIN playbacks'
               /\ ~mapHas(activeEmotes', playbacks[p].emoteKey)
        /\ (p \notin DOMAIN playbacks /\ p \in DOMAIN playbacks')
            => playbacks'[p].pc = "loadTexture" /\ p \notin DOMAIN children']_vars

C5_Witness ==
    \E p \in DOMAIN playbacks :
        /\ playbacks[p].pc = "fadeOut"
        /\ p \in DOMAIN children
        /\ children[p].alpha = 1
        /\ mapHas(activeEmotes, playbacks[p].emoteKey)

\* the message playEmote publishes for a token
broadcastFor(sceneId, tokenId, emoteId) ==
    [action |-> "playEmote", sceneId |-> sceneId, tokenId |-> tokenId, emoteId |-> emoteId]

\* C6: one playEmote call with a known emote id publishes, for each selected
\* token the caller owns and for no other, exactly one message carrying the
\* current scene id, the token's id and the emote id, suppressed locally or
\* not, and invokes the local playback for that token with the current scene.
C6_OneBroadcastPerOwnedToken ==
    [][(turn'.op = "playEmote" /\ findEmote(emotes, turn'.emoteId) # 0)
        => LET owned == SelectSeq(turn'.controlled, isOwner)
           IN  /\ socket' = [i \in 1..Len(owned) |->
                               broadcastFor(scene, owned[i], turn'.emoteId)]
               /\ \A i \in 1..Len(owned) :
                     ~mapHas(activeEmotes, emoteKey(owned[i], turn'.emoteId))
                        <=> startsPlayback(owned[i], turn'.emoteId)
               /\ Cardinality(startedNow) <= Len(owned)]_vars

C6_Witness ==
    /\ turn.op = "playEmote"
    /\ Len(turn.controlled) = 3
    /\ Len(socket) = 2
    /\ mapHas(activeEmotes, emoteKey("tokA", turn.emoteId))
    /\ \E p \in DOMAIN playbacks :
          /\ playbacks[p].tokenId = "tokC"
          /\ playbacks[p].emoteId = turn.emoteId
          /\ playbacks[p].pc = "loadTexture"

\* C7: in playEmote a selected token the caller does not own gets no local
\* playback and no message, while every owned token of the same selection,
\* before or after it, is played locally (unless suppressed) and broadcast.
C7_NonOwnedSkippedOthersProceed ==
    [][(turn'.op = "playEmote" /\ findEmote(emotes, turn'.emoteId) # 0)
        => \A i \in 1..Len(turn'.controlled) :
             LET token == turn'.controlled[i]
                 sent == {k \in 1..Len(socket') : socket'[k].tokenId = token}
             IN  IF isOwner(token)
                 THEN /\ Cardinality(sent) = 1
                      /\ startsPlayback(token, turn'.emoteId)
                           \/ mapHas(activeEmotes, emoteKey(token, turn'.emoteId))
                 ELSE /\ sent = {}
                      /\ \A p \in startedNow : playbacks'[p].tokenId # token]_vars

C7_Witness ==
    /\ turn.op = "playEmote"
    /\ turn.controlled = <<"tokA", "tokB", "tokC">>
    /\ \A k \in 1..Len(socket) : socket[k].tokenId # "tokB"
    /\ \A t \in {"tokA", "tokC"} :
          /\ \E k \in 1..Len(socket) : socket[k].tokenId = t
          /\ \E p \in DOMAIN playbacks :
                playbacks[p].tokenId = t /\ playbacks[p].pc = "loadTexture"

\* C8: an emote id that is not in the registry makes the request a no-op:
\* playEmote starts nothing and publishes nothing, and a received request adds
\* no node, no entry and no playback.
C8_UnknownEmoteNoOp ==
    [][/\ (turn'.op = "playEmote" /\ findEmote(emotes, turn'.emoteId) = 0)
            => socket' = <<>> /\ UNCHANGED <<children, activeEmotes, playbacks>>
       /\ (turn'.op = "socket" /\ findEmote(emotes, turn'.data.emoteId) = 0)
            => UNCHANGED <<children, activeEmotes, playbacks>>]_vars

C8_Witness ==
    /\ turn.op = "playEmote"
    /\ Len(turn.controlled) = 3
    /\ Len(emotes) > 0
    /\ findEmote(emotes, turn.emoteId) = 0
    /\ socket = <<>>

\* C9: a "playEmote" message is fed to the local playback with exactly its
\* sceneId, tokenId and emoteId: when that scene is viewed, the token and the
\* emote exist and no entry for the key is present, one playback for that
\* token and emote starts; otherwise, and for any other action, none starts.
C9_MessageFedToPlayback ==
    [][turn'.op = "socket"
        => LET d == turn'.data
           IN  /\ keepsPlaybacks
               /\ UNCHANGED <<children, activeEmotes>>
               /\ IF /\ d.action = "playEmote"
                     /\ d.sceneId = scene
                     /\ canvasTokensGet(d.tokenId)
                     /\ findEmote(emotes, d.emoteId) # 0
                     /\ ~mapHas(activeEmotes, emoteKey(d.tokenId, d.emoteId))
                  THEN /\ Cardinality(startedNow) = 1
                       /\ startsPlayback(d.tokenId, d.emoteId)
                  ELSE startedNow = {}]_vars

C9_Witness ==
    /\ turn.op = "socket"
    /\ turn.data.action = "playEmote"
    /\ turn.data.tokenId = "tokC"
    /\ \E p \in DOMAIN playbacks :
          /\ playbacks[p].tokenId = turn.data.tokenId
          /\ playbacks[p].emoteId = turn.data.emoteId
          /\ playbacks[p].pc = "loadTexture"
    /\ \E q \in DOMAIN playbacks : playbacks[q].tokenId = "tokA"

(***************************************************************************)
(* Properties of the flip action (FlipSpec).                               *)
(***************************************************************************)
\* the scale factor after n negations of its original value
flipped(t, prop) ==
    IF flipLog.reached[t][prop] % 2 = 0 THEN flipLog.orig[t][prop]
    ELSE 0 - flipLog.orig[t][prop]

\* C10 as stated: after any number of flipSelectedTokens calls that reached an
\* owned token, each direction's scale factor is its original value negated
\* once per call: two calls restore it, one call negates it, and calls in the
\* other direction leave it alone.
C10_CallsAreInvolutive ==
    \A t \in Tokens :
        (isOwner(t) /\ ~updateInFlight(flips, t))
            => \A prop \in {"scaleX", "scaleY"} : tokenDoc[t][prop] = flipped(t, prop)

\* C10 as amended: the same, for a token that every call reached while it was
\* not animating and while no other flip's update of it was still awaited.
C10_FlipsApartAreInvolutive ==
    \A t \in Tokens :
        (isOwner(t) /\ ~updateInFlight(flips, t) /\ flipLog.apart[t])
            => \A prop \in {"scaleX", "scaleY"} : tokenDoc[t][prop] = flipped(t, prop)

C10_Witness ==
    \E t \in Tokens :
        /\ isOwner(t)
        /\ ~updateInFlight(flips, t)
        /\ flipLog.apart[t]
        /\ flipDuration > 0
        /\ flipLog.reached[t] = [scaleX |-> 2, scaleY |-> 1]
        /\ flipLog.orig[t] = [scaleX |-> -2, scaleY |-> 1]
        /\ tokenDoc[t] = [scaleX |-> -2, scaleY |-> -1]

\* the first position from index from on whose token is owned and has no
\* animation running, 0 when there is none
firstFlippable(controlled, from, anim) ==
    LET S == {j \in from..Len(controlled) : isOwner(controlled[j]) /\ anim[controlled[j]] = 0}
    IN  IF S = {} THEN 0 ELSE CHOOSE j \in S : \A k \in S : j <= k

\* the invocation suspended last awaits the update of token t to value v
lastAwaits(queue, t, prop, v) ==
    /\ Len(queue) > 0
    /\ awaited(queue[Len(queue)]) = t
    /\ property(queue[Len(queue)].direction) = prop
    /\ queue[Len(queue)].value = v

\* C11: in a flipSelectedTokens call over several tokens, no step changes the
\* scale factors of a token the user does not own, and the call skips nothing
\* else: on entry and after each update it goes on to the first remaining token
\* that is owned and not animating, wherever the tokens it passes stand in the
\* selection, asks for the negated scale factor, and that value is written.
C11_NonOwnedKeptOwnedFlipped ==
    [][/\ \A t \in Tokens : ~isOwner(t) => tokenDoc'[t] = tokenDoc[t]
       /\ turn'.op = "flip" =>
             LET c == turn'.controlled
                 prop == property(turn'.direction)
                 j == firstFlippable(c, 1, animating)
             IN  IF j = 0 THEN flips' = flips
                 ELSE /\ Len(flips') = Len(flips) + 1
                      /\ lastAwaits(flips', c[j], prop, 0 - tokenDoc[c[j]][prop])
       /\ turn'.op = "updateResolved" =>
             LET f == Head(flips)
                 prop == property(f.direction)
                 j == firstFlippable(f.controlled, f.i + 1, animating')
             IN  /\ tokenDoc'[awaited(f)][prop] = f.value
                 /\ IF j = 0 THEN flips' = Tail(flips)
                    ELSE /\ Len(flips') = Len(flips)
                         /\ lastAwaits(flips', f.controlled[j], prop,
                                       0 - tokenDoc'[f.controlled[j]][prop])
      ]_vars

\* one call over tokA, tokB, tokC has run to its end: tokA before and tokC
\* after the token that is not owned are flipped, tokB is as it was
C11_Witness ==
    /\ turn.op = "updateResolved"
    /\ flips = <<>>
    /\ flipLog.calls = 1
    /\ flipLog.orig["tokA"].scaleX = -2
    /\ tokenDoc["tokA"].scaleX = 2
    /\ tokenDoc["tokC"].scaleX = 0 - flipLog.orig["tokC"].scaleX
    /\ tokenDoc["tokB"] = flipLog.orig["tokB"]
    /\ ~isOwner("tokB")

(***************************************************************************)
(* Properties of the bounce action (BounceSpec).                           *)
(***************************************************************************)
\* the suspended bounces of token t
bouncing(t) == {k \in 1..Len(bounces) : bounces[k].token = t}

\* C12: a bounce with count N applies exactly N updates to original y - height
\* and N updates back to original y, in turns, each one awaited before the next
\* is asked for, and the update that ends the bounce leaves the token at the y
\* it had when the bounce started.
C12_BounceIsNCycles ==
    /\ turn.op = "bounceResolved" =>
          /\ tokenY[turn.token] = IF turn.phase = "up" THEN turn.originalY - turn.height
                                  ELSE turn.originalY
          /\ turn.ended => tokenY[turn.token] = turn.originalY
    /\ \A t \in Tokens :
          ~bounceLog.failed[t] =>
              /\ bounceLog.ups[t] - bounceLog.downs[t]
                    = Cardinality({k \in bouncing(t) : bounces[k].phase = "down"})
              /\ bounceLog.downs[t] <= bounceLog.asked[t]
              /\ bouncing(t) = {} =>
                    /\ bounceLog.ups[t] = bounceLog.asked[t]
                    /\ bounceLog.downs[t] = bounceLog.asked[t]

\* a bounce of tokA with count 2 has just ended after two cycles
C12_Witness ==
    /\ turn.op = "bounceResolved"
    /\ turn.token = "tokA"
    /\ turn.ended
    /\ bouncing("tokA") = {}
    /\ ~bounceLog.failed["tokA"]
    /\ bounceLog.asked["tokA"] = 2
    /\ bounceLog.ups["tokA"] = 2
    /\ bounceLog.downs["tokA"] = 2
    /\ tokenY["tokA"] = 100

\* the suspended bounces of token t in the list q, in their order
bouncesOf(q, t) == SelectSeq(q, LAMBDA f : f.token = t)

\* C13: a bounceSelectedTokens call starts, in the one step of the call, a
\* bounce for every selected token that is owned and not animating, each with
\* that token's own y as its original y; a step of one token's bounce, applied
\* or rejected, leaves the other tokens' y and their suspended bounces as they
\* are; and the update a bounce awaits can be applied whatever state the
\* other bounces are in.
C13_BouncesAreIndependent ==
    [][/\ turn'.op = "bounce" =>
             LET c == turn'.controlled
             IN  \A j \in 1..Len(c) :
                    (isOwner(c[j]) /\ animating[c[j]] = 0) =>
                        bouncesOf(bounces', c[j]) =
                            Append(bouncesOf(bounces, c[j]),
                                   [token |-> c[j], originalY |-> tokenY[c[j]],
                                    height |-> turn'.height, count |-> turn'.count,
                                    i |-> 0, phase |-> "up"])
       /\ turn'.op \in {"bounceResolved", "bounceRejected"} =>
             \A t \in Tokens \ {turn'.token} :
                /\ tokenY'[t] = tokenY[t]
                /\ bouncesOf(bounces', t) = bouncesOf(bounces, t)
       /\ \A k \in 1..Len(bounces') : (ENABLED BounceUpdateResolved(k))'
      ]_vars

\* the bounce of tokA has run its two cycles to the end while the bounce of
\* tokC, started by the same call, still awaits its first update
C13_Witness ==
    /\ turn.op = "bounceResolved"
    /\ turn.token = "tokA"
    /\ turn.ended
    /\ bounceLog.calls = 1
    /\ bounceLog.downs["tokA"] = 2
    /\ tokenY["tokA"] = 100
    /\ \E k \in bouncing("tokC") : bounces[k].i = 0 /\ bounces[k].phase = "up"
    /\ bounceLog.ups["tokC"] = 0

(***************************************************************************)
(* Properties of bounce and flip together (BounceFlipSpec).                *)
(***************************************************************************)
\* the suspended flips that await an update of token t
flipping(q, t) == {k \in 1..Len(q) : awaited(q[k]) = t}

\* C14 as stated: a flip or bounce call that reaches a token while it is
\* animating asks for nothing for that token and changes neither its scale
\* factors nor its y, and so the update of a flip never takes effect on a
\* token while an animation of it is running.
C14_NoFlipDuringAnimation ==
    [][/\ turn'.op \in {"flip", "bounce"} =>
             \A j \in 1..Len(turn'.controlled) :
                LET t == turn'.controlled[j]
                IN  animating[t] > 0 =>
                       /\ tokenDoc'[t] = tokenDoc[t]
                       /\ tokenY'[t] = tokenY[t]
                       /\ flipping(flips', t) = flipping(flips, t)
                       /\ bouncesOf(bounces', t) = bouncesOf(bounces, t)
       /\ turn'.op = "updateResolved" => animating[awaited(Head(flips))] = 0
      ]_vars

(***************************************************************************)
(* Further properties of the emote protocol (Spec).                        *)
(***************************************************************************)
\* C15 as stated: while a playback still runs with its node on the scene, the
\* entry of its key is present, so the end or the failure of another playback
\* of the key has not removed it.
C15_EntryOutlivesOtherPlaybacks ==
    \A p \in DOMAIN playbacks :
        p \in DOMAIN children => mapHas(activeEmotes, playbacks[p].emoteKey)

\* the step that ends the stage playback p is in
stageStep(p) == FadeInDone(p) \/ HoldDone(p) \/ FadeOutDone(p)

\* C17: the scene is compared at entry only. Viewing another scene changes no
\* playback, node or entry, and leaves every playback that has its node able
\* to take the step that ends its stage; resumed while another scene than its token's
\* is viewed it goes on as ever: fade-in to hold with opacity 1, hold to
\* fade-out, fade-out to the removal of its node and of its entry.
C17_NotCancelledBySceneChange ==
    [][/\ turn'.op = "viewScene" =>
             /\ UNCHANGED <<playbacks, children, activeEmotes>>
             /\ \A p \in DOMAIN playbacks' :
                   playbacks'[p].pc # "loadTexture" => (ENABLED stageStep(p))'
       /\ (turn'.op = "resume" /\ ~canvasTokensGet(playbacks[turn'.id].tokenId)) =>
             LET p == turn'.id
             IN  /\ turn'.outcome = "fadedIn" =>
                       /\ playbacks[p].pc = "fadeIn" /\ playbacks'[p].pc = "hold"
                       /\ children'[p].alpha = 1
                 /\ turn'.outcome = "held" =>
                       playbacks[p].pc = "hold" /\ playbacks'[p].pc = "fadeOut"
                 /\ turn'.outcome = "completed" =>
                       /\ playbacks[p].pc = "fadeOut"
                       /\ p \notin DOMAIN playbacks' /\ p \notin DOMAIN children'
                       /\ ~mapHas(activeEmotes', turn'.emoteKey)
      ]_vars

\* with sceneB viewed, a playback of a sceneA token has just ended its
\* fade-out and removed its entry, and another one is in its hold
C17_Witness ==
    /\ scene = "sceneB"
    /\ turn.op = "resume"
    /\ turn.outcome = "completed"
    /\ ~mapHas(activeEmotes, turn.emoteKey)
    /\ turn.id \notin DOMAIN children
    /\ \E q \in DOMAIN playbacks : playbacks[q].pc = "hold" /\ q \in DOMAIN children

\* the outcomes with which a playback ends in failure
failures == {"noTexture", "caught:loadTexture", "caught:fadeIn", "caught:fadeOut"}

\* C18: a failure stays with its playback. The step in which a playback fails
\* (no texture, a rejected load, a throwing animation) changes no other
\* playback, no node and no entry of another key; a request for a token the
\* scene does not have changes nothing; and a playEmote call starts a playback
\* (unless the key is suppressed) and emits a message for every owned token of
\* the selection in its one step, before any of them can fail.
C18_FailureIsConfined ==
    [][/\ (turn'.op = "resume" /\ turn'.outcome \in failures) =>
             /\ \A q \in DOMAIN playbacks \ {turn'.id} :
                   q \in DOMAIN playbacks' /\ playbacks'[q] = playbacks[q]
             /\ \A k \in DOMAIN activeEmotes \ {turn'.emoteKey} :
                   mapHas(activeEmotes', k) /\ activeEmotes'[k] = activeEmotes[k]
             /\ children' = children
       /\ (turn'.op = "socket" /\ turn'.data.action = "playEmote"
              /\ turn'.data.sceneId = scene /\ ~canvasTokensGet(turn'.data.tokenId)) =>
             UNCHANGED <<playbacks, children, activeEmotes>>
       /\ (turn'.op = "playEmote" /\ findEmote(emotes, turn'.emoteId) # 0) =>
             \A i \in 1..Len(turn'.controlled) :
                LET t == turn'.controlled[i]
                IN  isOwner(t) =>
                       /\ \E j \in 1..Len(socket') :
                             socket'[j] = broadcastFor(scene, t, turn'.emoteId)
                       /\ ~mapHas(activeEmotes, emoteKey(t, turn'.emoteId))
                             => startsPlayback(t, turn'.emoteId)
      ]_vars

\* the load of the playback for tokA has just been rejected while the
\* playback for tokC is in its fade-in with node and entry in place
C18_Witness ==
    /\ turn.op = "resume"
    /\ turn.outcome = "caught:loadTexture"
    /\ turn.emoteKey = emoteKey("tokA", "heart")
    /\ \E q \in DOMAIN playbacks :
          /\ playbacks[q].emoteKey = emoteKey("tokC", "heart")
          /\ playbacks[q].pc = "fadeIn"
          /\ q \in DOMAIN children
          /\ mapHas(activeEmotes, playbacks[q].emoteKey)
          /\ activeEmotes[playbacks[q].emoteKey] = q

(***************************************************************************)
(* Termination of playbacks (LiveSpec).                                    *)
(***************************************************************************)
\* C16 as stated: when the host settles every load, timer and animation, every
\* playback that has registered its entry ends, and every entry is removed:
\* no key stays suppressed for ever.
C16_EveryEntryIsRemoved ==
    /\ \A p \in SpriteIds :
          (p \in DOMAIN playbacks /\ p \in DOMAIN children) ~> (p \notin DOMAIN playbacks)
    /\ \A d \in LiveData :
          mapHas(activeEmotes, emoteKey(d.tokenId, d.emoteId))
              ~> ~mapHas(activeEmotes, emoteKey(d.tokenId, d.emoteId))

(***************************************************************************)
(* Properties of the registry (ConfigSpec).                                *)
(***************************************************************************)
\* C20 as stated: whatever configuration operations have run, no two
\* definitions of the stored list share an id.
C20_IdsAreUnique ==
    \A i, j \in 1..Len(emotes) : emotes[i].id = emotes[j].id => i = j

(***************************************************************************)
(* Properties of the suppression key (PairSpec).                           *)
(***************************************************************************)
\* the registry holds the node of a playback of exactly this pair
registeredFor(tokenId, emoteId) ==
    \E k \in DOMAIN activeEmotes :
        /\ activeEmotes[k] \in DOMAIN children
        /\ children[activeEmotes[k]].tokenId = tokenId
        /\ children[activeEmotes[k]].emoteId = emoteId

\* C19: a request for a token of the viewed scene and a known emote is
\* suppressed exactly when the registry holds a playback of the identical
\* (tokenId, emoteId) pair; a playback of another pair, on the same token or
\* with the same emote, with default ids or ids "emote-<timestamp>", never
\* suppresses it.
C19_SuppressionIsPerPair ==
    [][(turn'.op = "socket" /\ turn'.data.action = "playEmote"
            /\ turn'.data.sceneId = scene
            /\ canvasTokensGet(turn'.data.tokenId)
            /\ findEmote(emotes, turn'.data.emoteId) # 0)
        => (startsPlayback(turn'.data.tokenId, turn'.data.emoteId)
              <=> ~registeredFor(turn'.data.tokenId, turn'.data.emoteId))]_vars

\* the emotes emote-1 and emote-11 are active on tokA together, each with its
\* own entry
C19_Witness ==
    \E p, q \in DOMAIN children :
        /\ children[p].tokenId = "tokA" /\ children[p].emoteId = "emote-1"
        /\ children[q].tokenId = "tokA" /\ children[q].emoteId = "emote-11"
        /\ mapHas(activeEmotes, emoteKey("tokA", "emote-1"))
        /\ mapHas(activeEmotes, emoteKey("tokA", "emote-11"))
        /\ activeEmotes[emoteKey("tokA", "emote-1")] = p
        /\ activeEmotes[emoteKey("tokA", "emote-11")] = q
        /\ p \in DOMAIN playbacks /\ q \in DOMAIN playbacks

====
